---- MODULE Spec2Model ----
(***************************************************************************)
(* Model of the `styles` attribute macro of leptos_styles (src/lib.rs).    *)
(*                                                                         *)
(* One build step is modelled end to end: the macro invocation itself      *)
(* (argument parsing, item parsing, identifier derivation, body rewrite,   *)
(* emission), the compilation of the emitted tokens (expansion of          *)
(* concat!/include_str! and of the view), and one call of the compiled     *)
(* component.  Strings are sequences of Unicode code points; `bytes()` is  *)
(* their UTF-8 encoding.  u32 values are kept as two 16-bit halves so that *)
(* the wrapping arithmetic is exact.  Paths follow the Unix rules of       *)
(* std::path (separator "/").                                              *)
(***************************************************************************)
EXTENDS Integers, Sequences, FiniteSets, TLC

(* ------------------------------ bounds --------------------------------- *)

\* longest path of the exhaustively enumerated short paths
MaxPathLen == 3

(* ----------------------------- characters ------------------------------ *)

SLASH == 47

DOT == 46

HASHCH == 35

SPACE == 32

LBRACE == 123

RBRACE == 125

ZERO == 48

\* "component"
COMPONENT == <<99, 111, 109, 112, 111, 110, 101, 110, 116>>

\* ".css"
EXT_CSS == <<46, 99, 115, 115>>

\* " { "
OPEN_RULE == <<SPACE, LBRACE, SPACE>>

\* " }"
CLOSE_RULE == <<SPACE, RBRACE>>

(* ------------------------------ inputs --------------------------------- *)

\* characters of the exhaustively enumerated paths: "/", ".", "a"
PathAlphabet == {SLASH, DOT, 97}

RECURSIVE SeqsUpTo(_, _)
SeqsUpTo(S, n) ==
    IF n = 0 THEN {<<>>}
    ELSE LET shorter == SeqsUpTo(S, n - 1)
         IN  shorter \cup {Append(s, c) : s \in shorter, c \in S}

ShortPaths == SeqsUpTo(PathAlphabet, MaxPathLen)

\* realistic paths, among them the ones the documentation names
SamplePaths ==
    { <<97, 47, 99, 97, 114, 100>> \o EXT_CSS,                 \* "a/card.css"
      <<98, 47, 99, 97, 114, 100>> \o EXT_CSS,                 \* "b/card.css"
      <<99, 97, 114, 100, 46, 115, 99, 115, 115>>,             \* "card.scss"
      EXT_CSS,                                                 \* ".css"
      <<115, 114, 99, 47, 109, 121, 95>> \o COMPONENT \o EXT_CSS, \* "src/my_component.css"
      <<99, 47, 233>> \o EXT_CSS,                              \* "c/é.css"
      <<26085, 46, 99>>,                                       \* "日.c"
      <<110, 97, 118, 47>>,                                    \* "nav/"
      <<97, 47, 46, 46>> }                                     \* "a/.."

Paths == ShortPaths \cup SamplePaths

\* the attribute's token stream
AttrStreams ==
    { <<>>,
      << [tok |-> "Ident", value |-> <<>>] >>,
      << [tok |-> "LitStr", value |-> <<97>> \o EXT_CSS], [tok |-> "Comma", value |-> <<>>] >> }
    \cup { << [tok |-> "LitStr", value |-> p] >> : p \in Paths }

\* a body is described by the results its exit paths produce: the value of
\* its tail expression and the value of an explicit `return` (a fragment, the
\* type of the two-rooted view, so that the rewritten function type-checks)
NoValue == "none"

Items ==
    { [kind |-> "struct", attrs |-> <<>>, vis |-> "pub",
       sig |-> [ident |-> "Props", inputs |-> <<>>, output |-> ""],
       block |-> [tail |-> NoValue, early |-> NoValue]],
      [kind |-> "fn", attrs |-> <<"component">>, vis |-> "pub",
       sig |-> [ident |-> "MyComponent", inputs |-> <<>>, output |-> "impl IntoView"],
       block |-> [tail |-> "<p>Hello</p>", early |-> NoValue]],
      [kind |-> "fn", attrs |-> <<>>, vis |-> "inherited",
       sig |-> [ident |-> "Card", inputs |-> <<"title: String">>, output |-> "impl IntoView"],
       block |-> [tail |-> "<h1>Card</h1>", early |-> "<i>Empty</i>"]],
      [kind |-> "fn", attrs |-> <<"component", "allow(unused)">>, vis |-> "pub(crate)",
       sig |-> [ident |-> "Nav", inputs |-> <<"open: bool">>, output |-> "Fragment"],
       block |-> [tail |-> NoValue, early |-> "<nav/>"]] }

\* the style file as the build finds it: absent, or present with contents
Files ==
    { [exists |-> FALSE, contents |-> <<>>],
      [exists |-> TRUE, contents |-> <<>>],
      [exists |-> TRUE, contents |-> <<RBRACE>>],                     \* "}"
      [exists |-> TRUE, contents |-> <<112, LBRACE, 233, RBRACE>>] }  \* "p{é}"

(* ------------------------- std::path::Path ----------------------------- *)

None == [some |-> FALSE, val |-> <<>>]

Some(v) == [some |-> TRUE, val |-> v]

\* segments of a path between separators
RECURSIVE Split(_, _, _)
Split(s, i, cur) ==
    IF i > Len(s) THEN <<cur>>
    ELSE IF s[i] = SLASH THEN <<cur>> \o Split(s, i + 1, <<>>)
    ELSE Split(s, i + 1, Append(cur, s[i]))

IsNamed(seg) == seg # <<>> /\ seg # <<DOT>>

\* variant: a final ".." taken for a file name
file_nameKeepsParent(p) ==
    LET segs == SelectSeq(Split(p, 1, <<>>), IsNamed)
    IN  IF segs = <<>> THEN None ELSE Some(segs[Len(segs)])

\* Path::file_name: the last component when it is a normal one
file_name(p) ==
    LET segs == SelectSeq(Split(p, 1, <<>>), IsNamed)
    IN  IF segs = <<>> THEN None
        ELSE IF segs[Len(segs)] = <<DOT, DOT>> THEN None
        ELSE Some(segs[Len(segs)])

\* index of the last "." of a file name, 0 when there is none
LastDot(file) ==
    LET dots == {i \in 1..Len(file) : file[i] = DOT}
    IN  IF dots = {} THEN 0 ELSE CHOOSE i \in dots : \A j \in dots : j <= i

\* std's rsplit_file_at_dot: <<before, after>>
rsplit_file_at_dot(file) ==
    IF file = <<DOT, DOT>> THEN <<Some(file), None>>
    ELSE LET d == LastDot(file)
         IN  IF d = 0 THEN <<None, Some(file)>>
             ELSE IF d = 1 THEN <<Some(file), None>>
             ELSE <<Some(SubSeq(file, 1, d - 1)), Some(SubSeq(file, d + 1, Len(file)))>>

\* Path::file_stem
file_stem(p) ==
    LET name == file_name(p)
    IN  IF ~name.some THEN None
        ELSE LET parts == rsplit_file_at_dot(name.val)
             IN  IF parts[1].some THEN parts[1] ELSE parts[2]

\* variant: the whole path taken for the base name
FilenameWholePath(p) == IF file_stem(p).some THEN p ELSE COMPONENT

\* .file_stem().and_then(|name| name.to_str()).unwrap_or("component")
Filename(p) ==
    LET stem == file_stem(p)
    IN  IF stem.some THEN stem.val ELSE COMPONENT

(* ------------------------------ u32 ------------------------------------ *)

Half == 65536

U32(n) == [hi |-> n \div Half, lo |-> n % Half]

wrapping_mul(h, m) ==
    LET p == h.lo * m
    IN  [hi |-> ((h.hi * m) + (p \div Half)) % Half, lo |-> p % Half]

wrapping_add(h, b) ==
    LET s == h.lo + b
    IN  [hi |-> (h.hi + (s \div Half)) % Half, lo |-> s % Half]

\* h % m for a modulus below 2^16
U32Rem(h, m) == (((h.hi % m) * (Half % m)) + h.lo) % m

\* UTF-8 encoding of one code point
Utf8(cp) ==
    IF cp < 128 THEN <<cp>>
    ELSE IF cp < 2048 THEN <<192 + (cp \div 64), 128 + (cp % 64)>>
    ELSE <<224 + (cp \div 4096), 128 + ((cp \div 64) % 64), 128 + (cp % 64)>>

\* str::bytes
RECURSIVE bytes(_)
bytes(s) == IF s = <<>> THEN <<>> ELSE Utf8(Head(s)) \o bytes(Tail(s))

HashSeed == 5381

HashMul == 33

IdModulus == 10000

\* variant: the byte added before the multiplication
HashByteAddFirst(h, byte) == wrapping_mul(wrapping_add(h, byte), HashMul)

\* one iteration of the loop over the bytes
HashByte(h, byte) == wrapping_add(wrapping_mul(h, HashMul), byte)

RECURSIVE HashLoop(_, _)
HashLoop(h, bs) == IF bs = <<>> THEN h ELSE HashLoop(HashByte(h, Head(bs)), Tail(bs))

\* Display of an unsigned integer
RECURSIVE Display(_)
Display(n) == IF n < 10 THEN <<ZERO + n>> ELSE Display(n \div 10) \o <<ZERO + (n % 10)>>

\* variant: the suffix padded to four digits, as "{}{:04}" would
FormatIdPadded(name, h) ==
    LET n == U32Rem(h, IdModulus)
    IN  name \o <<ZERO + (n \div 1000), ZERO + ((n \div 100) % 10), ZERO + ((n \div 10) % 10), ZERO + (n % 10)>>

\* format!("{}{}", filename, hash % 10000)
FormatId(name, h) == name \o Display(U32Rem(h, IdModulus))

(* --------------------------- syn and quote ----------------------------- *)

\* variant: only the first token looked at, the rest of the stream ignored
ParseLitStrFirstToken(stream) ==
    IF Len(stream) >= 1 /\ stream[1].tok = "LitStr"
    THEN [ok |-> TRUE, value |-> stream[1].value]
    ELSE [ok |-> FALSE, value |-> <<>>]

\* parse_macro_input!(attr as LitStr): the whole stream is one string literal
ParseLitStr(stream) ==
    IF Len(stream) = 1 /\ stream[1].tok = "LitStr"
    THEN [ok |-> TRUE, value |-> stream[1].value]
    ELSE [ok |-> FALSE, value |-> <<>>]

\* parse_macro_input!(item as ItemFn)
ParseItemFn(it) == [ok |-> it.kind = "fn", func |-> it]

Lit(s) == [kind |-> "lit", val |-> s]

\* variant: the file looked up under the stem's name, not under the path
IncludeStrOfStem(p) == [kind |-> "include_str", val |-> Filename(p)]

\* include_str!(#path_str)
IncludeStr(p) == [kind |-> "include_str", val |-> p]

\* variant: the closing brace of the rule left out
StyleExprNoClose(id, p) == <<Lit(<<HASHCH>>), Lit(id), Lit(OPEN_RULE), IncludeStr(p)>>

\* concat!("#", #unique_id, " { ", include_str!(#path_str), " }")
StyleExpr(id, p) == <<Lit(<<HASHCH>>), Lit(id), Lit(OPEN_RULE), IncludeStr(p), Lit(CLOSE_RULE)>>

\* the quoted replacement body
NewBody(original_body, id, p) ==
    [original_view |-> original_body,
     view |-> << [tag |-> "style", id |-> <<>>, child |-> "concat", args |-> StyleExpr(id, p)],
                 [tag |-> "div", id |-> id, child |-> "original_view", args |-> <<>>] >>]

\* syn::parse2::<Block>: a brace-delimited token group of statements
parse2(new_body) == [ok |-> Len(new_body.view) = 2, block |-> new_body]

\* variant: the function rebuilt without its attributes
EmitFnNoAttrs(f) == [kind |-> "fn", error |-> "", attrs |-> <<>>, vis |-> f.vis, sig |-> f.sig, block |-> f.block]

\* quote! { #func }
EmitFn(f) == [kind |-> "fn", error |-> "", attrs |-> f.attrs, vis |-> f.vis, sig |-> f.sig, block |-> f.block]

\* the tokens of a syn::Error turned into compile_error!
CompileError(what) ==
    [kind |-> "compile_error", error |-> what, attrs |-> <<>>, vis |-> "", sig |-> "", block |-> ""]

NoOutput == [kind |-> "none", error |-> "", attrs |-> <<>>, vis |-> "", sig |-> "", block |-> ""]

(* ------------------- compiling the emitted tokens ---------------------- *)

\* value of one argument of concat!; include_str! yields the file's contents
ArgText(arg, f) == IF arg.kind = "include_str" THEN f.contents ELSE arg.val

RECURSIVE Concat(_, _)
Concat(args, f) == IF args = <<>> THEN <<>> ELSE ArgText(Head(args), f) \o Concat(Tail(args), f)

\* the paths the emitted body asks the compiler to read
IncludedPaths(args) == {args[i].val : i \in {j \in 1..Len(args) : args[j].kind = "include_str"}}

NotCompiled == [kind |-> "none", error |-> "", path |-> <<>>, style_text |-> <<>>, div_id |-> <<>>]

BuildError(what, p) == [kind |-> "error", error |-> what, path |-> p, style_text |-> <<>>, div_id |-> <<>>]

Component(text, id) == [kind |-> "component", error |-> "", path |-> <<>>, style_text |-> text, div_id |-> id]

(* ----------------------- the rendered structure ------------------------ *)

NotReturned == [kind |-> "none", value |-> NoValue, nodes |-> <<>>]

\* the value of an explicit `return` in the original body
Raw(v) == [kind |-> "raw", value |-> v, nodes |-> <<>>]

\* variant: the container put before the style element
ViewDivFirst(text, id, inner) ==
    [kind |-> "view", value |-> NoValue,
     nodes |-> << [tag |-> "div", id |-> id, text |-> <<>>, children |-> <<inner>>],
                  [tag |-> "style", id |-> <<>>, text |-> text, children |-> <<>>] >>]

\* leptos::view! { <style>{..}</style> <div id=..>{original_view}</div> }
View(text, id, inner) ==
    [kind |-> "view", value |-> NoValue,
     nodes |-> << [tag |-> "style", id |-> <<>>, text |-> text, children |-> <<>>],
                  [tag |-> "div", id |-> id, text |-> <<>>, children |-> <<inner>>] >>]

\* exits a body can take when it runs
Exits(block) ==
    {e \in {"tail", "early"} : IF e = "tail" THEN block.tail # NoValue ELSE block.early # NoValue}

(* ------------------------------ state ---------------------------------- *)

VARIABLES
    attr,           \* input: the attribute's token stream
    item,           \* input: the annotated item
    file,           \* environment: the style file as the build finds it
    pc,             \* position in the build of this component
    path_str,       \* path_lit.value()
    func,           \* the parsed ItemFn
    filename,       \* the stem, or "component"
    hash,           \* the u32 hash
    unique_id,      \* the derived identifier
    output,         \* the token stream the macro returns
    compiled,       \* what compiling the output gives
    fileReads,      \* number of reads of the style file so far
    original_view,  \* the binding of the original body's value
    events,         \* what a call of the component did, in order
    returned,       \* what a call of the component returned
    history         \* the previous component of this build that derived an id

vars == <<attr, item, file, pc, path_str, func, filename, hash, unique_id, output,
          compiled, fileReads, original_view, events, returned, history>>

NoFunc == [kind |-> "none"]

NoHistory == [some |-> FALSE, path |-> <<>>, filename |-> <<>>, unique_id |-> <<>>]

\* the state in which an invocation of the macro starts
Start ==
    /\ pc = "parse_attr"
    /\ path_str = <<>>
    /\ func = NoFunc
    /\ filename = <<>>
    /\ hash = U32(0)
    /\ unique_id = <<>>
    /\ output = NoOutput
    /\ compiled = NotCompiled
    /\ fileReads = 0
    /\ original_view = NoValue
    /\ events = <<>>
    /\ returned = NotReturned

Init ==
    /\ attr \in AttrStreams
    /\ item \in Items
    /\ file \in Files
    /\ history = NoHistory
    /\ Start

inputs == <<attr, item, file, history>>

macroVars == <<path_str, func, filename, hash, unique_id, output>>

laterVars == <<compiled, fileReads, original_view, events, returned>>

(* ------------------------- the macro, step by step --------------------- *)

\* let path_lit = parse_macro_input!(attr as LitStr); let path_str = path_lit.value();
ParseAttr ==
    /\ pc = "parse_attr"
    /\ LET r == ParseLitStr(attr)
       IN  IF r.ok
           THEN /\ path_str' = r.value
                /\ pc' = "parse_item"
                /\ output' = output
           ELSE /\ output' = CompileError("attr")
                /\ pc' = "expanded"
                /\ path_str' = path_str
    /\ UNCHANGED <<func, filename, hash, unique_id>>
    /\ UNCHANGED inputs
    /\ UNCHANGED laterVars

\* let mut func = parse_macro_input!(item as ItemFn);
ParseItem ==
    /\ pc = "parse_item"
    /\ LET r == ParseItemFn(item)
       IN  IF r.ok
           THEN /\ func' = r.func
                /\ pc' = "file_stem"
                /\ output' = output
           ELSE /\ output' = CompileError("item")
                /\ pc' = "expanded"
                /\ func' = func
    /\ UNCHANGED <<path_str, filename, hash, unique_id>>
    /\ UNCHANGED inputs
    /\ UNCHANGED laterVars

\* let filename = Path::new(&path_str).file_stem()...unwrap_or("component");
TakeFileStem ==
    /\ pc = "file_stem"
    /\ filename' = Filename(path_str)
    /\ pc' = "hash"
    /\ UNCHANGED <<path_str, func, hash, unique_id, output>>
    /\ UNCHANGED inputs
    /\ UNCHANGED laterVars

\* let mut hash: u32 = 5381; for byte in filename.bytes() { ... }
HashFilename ==
    /\ pc = "hash"
    /\ hash' = HashLoop(U32(HashSeed), bytes(filename))
    /\ pc' = "format_id"
    /\ UNCHANGED <<path_str, func, filename, unique_id, output>>
    /\ UNCHANGED inputs
    /\ UNCHANGED laterVars

\* let unique_id = format!("{}{}", filename, hash % 10000);
FormatUniqueId ==
    /\ pc = "format_id"
    /\ unique_id' = FormatId(filename, hash)
    /\ pc' = "rewrite"
    /\ UNCHANGED <<path_str, func, filename, hash, output>>
    /\ UNCHANGED inputs
    /\ UNCHANGED laterVars

\* let original_body = func.block; let new_body = quote!{..}; parse2; func.block = ..
RewriteBody ==
    /\ pc = "rewrite"
    /\ LET original_body == func.block
           r == parse2(NewBody(original_body, unique_id, path_str))
       IN  IF r.ok
           THEN /\ func' = [func EXCEPT !.block = r.block]
                /\ pc' = "emit"
                /\ output' = output
           ELSE /\ output' = CompileError("body")
                /\ pc' = "expanded"
                /\ func' = func
    /\ UNCHANGED <<path_str, filename, hash, unique_id>>
    /\ UNCHANGED inputs
    /\ UNCHANGED laterVars

\* quote! { #func }.into()
Emit ==
    /\ pc = "emit"
    /\ output' = EmitFn(func)
    /\ pc' = "expanded"
    /\ UNCHANGED <<path_str, func, filename, hash, unique_id>>
    /\ UNCHANGED inputs
    /\ UNCHANGED laterVars

(* ------------------ the compiler on the macro's output ----------------- *)

\* compile_error! stops the build; otherwise concat!/include_str! are expanded
CompileOutput ==
    /\ pc = "expanded"
    /\ IF output.kind = "compile_error"
       THEN /\ compiled' = BuildError(output.error, <<>>)
            /\ fileReads' = fileReads
            /\ pc' = "build_failed"
       ELSE LET style == output.block.view[1]
                div == output.block.view[2]
            IN  /\ fileReads' = fileReads + Cardinality(IncludedPaths(style.args))
                /\ IF file.exists
                   THEN /\ compiled' = Component(Concat(style.args, file), div.id)
                        /\ pc' = "compiled"
                   ELSE /\ compiled' = BuildError("read", CHOOSE p \in IncludedPaths(style.args) : TRUE)
                        /\ pc' = "build_failed"
    /\ UNCHANGED macroVars
    /\ UNCHANGED inputs
    /\ UNCHANGED <<original_view, events, returned>>

(* --------------------- a call of the compiled component ---------------- *)

\* let original_view = #original_body;
EvalOriginalBody ==
    /\ pc = "compiled"
    /\ \E exit \in Exits(output.block.original_view) :
         IF exit = "tail"
         THEN /\ original_view' = output.block.original_view.tail
              /\ returned' = returned
              /\ pc' = "bound"
         ELSE /\ returned' = Raw(output.block.original_view.early)
              /\ original_view' = original_view
              /\ pc' = "returned"
    /\ events' = Append(events, "eval_body")
    /\ UNCHANGED macroVars
    /\ UNCHANGED inputs
    /\ UNCHANGED <<compiled, fileReads>>

\* leptos::view! { <style>..</style> <div id=..>{original_view}</div> }
RenderView ==
    /\ pc = "bound"
    /\ events' = events \o <<"style", "div">>
    /\ returned' = View(compiled.style_text, compiled.div_id, original_view)
    /\ pc' = "returned"
    /\ UNCHANGED macroVars
    /\ UNCHANGED inputs
    /\ UNCHANGED <<compiled, fileReads, original_view>>

(* ------------------------------ one build ------------------------------ *)

Next ==
    \/ ParseAttr
    \/ ParseItem
    \/ TakeFileStem
    \/ HashFilename
    \/ FormatUniqueId
    \/ RewriteBody
    \/ Emit
    \/ CompileOutput
    \/ EvalOriginalBody
    \/ RenderView

Spec == Init /\ [][Next]_vars

(* -------------------- a build of several components -------------------- *)

\* the items and files of the components of a longer build
BuildItems == {it \in Items : it.sig.ident = "MyComponent"}

BuildFiles == {f \in Files : f.contents = <<RBRACE>>}

InitBuild ==
    /\ attr \in AttrStreams
    /\ item \in BuildItems
    /\ file \in BuildFiles
    /\ history = NoHistory
    /\ Start

IdDerived == unique_id # <<>>

\* the build goes on with the next annotated component
NextComponent ==
    /\ pc \in {"build_failed", "returned"}
    /\ history' = IF IdDerived
                  THEN [some |-> TRUE, path |-> path_str, filename |-> filename, unique_id |-> unique_id]
                  ELSE history
    /\ attr' \in AttrStreams
    /\ item' \in BuildItems
    /\ file' \in BuildFiles
    /\ pc' = "parse_attr"
    /\ path_str' = <<>>
    /\ func' = NoFunc
    /\ filename' = <<>>
    /\ hash' = U32(0)
    /\ unique_id' = <<>>
    /\ output' = NoOutput
    /\ compiled' = NotCompiled
    /\ fileReads' = 0
    /\ original_view' = NoValue
    /\ events' = <<>>
    /\ returned' = NotReturned

NextBuild ==
    \/ ParseAttr
    \/ ParseItem
    \/ TakeFileStem
    \/ HashFilename
    \/ FormatUniqueId
    \/ RewriteBody
    \/ Emit
    \/ CompileOutput
    \/ EvalOriginalBody
    \/ RenderView
    \/ NextComponent

SpecBuild == InitBuild /\ [][NextBuild]_vars

(* ============================== properties ============================= *)

(* ------------------- reference definitions of the claims --------------- *)

\* h * 33 + b on a little-endian number of four base-256 digits, the carry
\* out of the fourth digit dropped: (h * 33 + b) mod 2^32
RECURSIVE RefStep(_, _, _)
RefStep(limbs, i, carry) ==
    IF i > 4 THEN <<>>
    ELSE LET t == (limbs[i] * 32) + limbs[i] + carry
         IN  <<t % 256>> \o RefStep(limbs, i + 1, t \div 256)

RECURSIVE RefDjb2(_, _)
RefDjb2(limbs, bs) ==
    IF bs = <<>> THEN limbs ELSE RefDjb2(RefStep(limbs, 1, Head(bs)), Tail(bs))

\* 5381 = 21 * 256 + 5
RefSeed == <<5, 21, 0, 0>>

\* the number mod 10000, most significant digit first
RefMod10000(limbs) ==
    LET m3 == limbs[4] % 10000
        m2 == ((m3 * 256) + limbs[3]) % 10000
        m1 == ((m2 * 256) + limbs[2]) % 10000
    IN  ((m1 * 256) + limbs[1]) % 10000

\* decimal digits of n < 10000 without leading zeros
RefDecimal(n) ==
    LET ds == <<n \div 1000, (n \div 100) % 10, (n \div 10) % 10, n % 10>>
        first == IF n >= 1000 THEN 1 ELSE IF n >= 100 THEN 2 ELSE IF n >= 10 THEN 3 ELSE 4
    IN  [k \in 1..(5 - first) |-> ZERO + ds[first + k - 1]]

RefSuffix(stem) == RefDecimal(RefMod10000(RefDjb2(RefSeed, bytes(stem))))

IsDigit(c) == c \in ZERO..(ZERO + 9)

\* what follows the base name in the identifier
Suffix == SubSeq(unique_id, Len(filename) + 1, Len(unique_id))

\* "my_component"
MY_COMPONENT == <<109, 121, 95>> \o COMPONENT

\* "card"
CARD == <<99, 97, 114, 100>>

GoodAttr == Len(attr) = 1 /\ attr[1].tok = "LitStr"

\* the macro has returned
Expanded == pc \in {"expanded", "build_failed", "compiled", "bound", "returned"}

(* C1: the identifier is the stem followed by the unpadded decimal rendering
   of (djb2 of the stem's bytes, seed 5381, multiplier 33, mod 2^32) mod 10000. *)
C1_IdIsStemPlusDjb2 ==
    IdDerived => unique_id = filename \o RefSuffix(filename)

\* "my_component" hashes past 2^32 several times and gives my_component5949
C1_Witness ==
    /\ IdDerived
    /\ filename = MY_COMPONENT
    /\ unique_id = MY_COMPONENT \o <<53, 57, 52, 57>>

(* C2: two invocations whose paths have the same stem derive the same
   identifier, whatever the directories and the extension. *)
C2_SameStemSameId ==
    (history.some /\ IdDerived /\ file_stem(history.path) = file_stem(path_str))
        => history.unique_id = unique_id

\* "a/card.css" then "b/card.css" or "card.scss"
C2_Witness ==
    /\ history.some
    /\ IdDerived
    /\ history.path = <<97, 47>> \o CARD \o EXT_CSS
    /\ path_str \in {<<98, 47>> \o CARD \o EXT_CSS, CARD \o <<46, 115, 99, 115, 115>>}
    /\ history.unique_id = unique_id

\* the path with trailing separators and trailing "." segments removed
RECURSIVE Trim(_)
Trim(p) ==
    IF p = <<>> THEN p
    ELSE LET n == Len(p)
             front == SubSeq(p, 1, n - 1)
         IN  IF p[n] = SLASH THEN Trim(front)
             ELSE IF p[n] = DOT /\ (n = 1 \/ p[n - 1] = SLASH) THEN Trim(front)
             ELSE p

\* the path names no file: nothing is left of it, or it ends in ".."
NoFinalName(p) ==
    LET t == Trim(p)
        n == Len(t)
    IN  \/ t = <<>>
        \/ t = <<DOT, DOT>>
        \/ n >= 3 /\ SubSeq(t, n - 2, n) = <<SLASH, DOT, DOT>>

\* "component9768"
COMPONENT_ID == COMPONENT \o <<57, 55, 54, 56>>

(* C3 as stated: for the empty path, "/" and the extension-only name ".css"
   the base name is "component" and the identifier is "component" followed
   by the hash suffix of "component". *)
C3_Original ==
    (IdDerived /\ path_str \in {<<>>, <<SLASH>>, EXT_CSS})
        => (filename = COMPONENT /\ unique_id = COMPONENT_ID)

(* C3 amended: for every path that names no file (the empty path, "/", a path
   of separators and "." only, a path ending in "..") the base name is
   "component" and the identifier is "component9768"; an extension-only
   name such as ".css" is its own stem. *)
C3_FallbackWhenNoFileName ==
    /\ (IdDerived /\ NoFinalName(path_str))
           => (filename = COMPONENT /\ unique_id = COMPONENT \o RefSuffix(COMPONENT)
               /\ unique_id = COMPONENT_ID)
    /\ (IdDerived /\ path_str = EXT_CSS) => filename = EXT_CSS

C3_Witness ==
    /\ IdDerived
    /\ path_str = <<SLASH>>
    /\ unique_id = COMPONENT_ID

(* C4 as stated: the identifier ends in exactly 4 decimal digits appended to
   the base name. *)
C4_Original ==
    IdDerived =>
        /\ SubSeq(unique_id, 1, Len(filename)) = filename
        /\ Len(Suffix) = 4
        /\ \A k \in 1..Len(Suffix) : IsDigit(Suffix[k])

(* C4 amended: the identifier is the base name followed by 1 to 4 decimal
   digits, the unpadded rendering of a number in 0..9999 (no leading zero
   unless the suffix is the single digit 0). *)
C4_SuffixOneToFourDigits ==
    IdDerived =>
        /\ SubSeq(unique_id, 1, Len(filename)) = filename
        /\ Len(Suffix) \in 1..4
        /\ \A k \in 1..Len(Suffix) : IsDigit(Suffix[k])
        /\ Len(Suffix) > 1 => Suffix[1] # ZERO

\* "a/card.css" gives card863, a suffix of three digits
C4_Witness ==
    /\ IdDerived
    /\ filename = CARD
    /\ unique_id = CARD \o <<56, 54, 51>>

\* the component has been compiled
Compiled == pc \in {"compiled", "bound", "returned"}

\* "#" + I + " { " + C + " }"
ScopedRule(id, contents) == <<HASHCH>> \o id \o <<SPACE, LBRACE, SPACE>> \o contents \o <<SPACE, RBRACE>>

(* C5: the style text of the compiled component is "#" + I + " { " + C + " }"
   with C the file's contents unchanged and I the identifier that is also the
   container's id. *)
C5_StyleTextIsScopedRule ==
    Compiled =>
        /\ compiled.style_text = ScopedRule(unique_id, file.contents)
        /\ compiled.div_id = unique_id

\* contents containing "}"; the empty contents are covered by the invariant
C5_Witness ==
    /\ Compiled
    /\ RBRACE \in {file.contents[k] : k \in 1..Len(file.contents)}
    /\ Len(file.contents) > 1

(* C6: when the original body evaluates to a result R, the call evaluates it
   exactly once, before either wrapper element is built, and returns the
   style element with the generated style text followed by the container
   whose id is the identifier and whose only content is R. *)
C6_WrapsBoundResult ==
    /\ pc = "bound" => (events = <<"eval_body">> /\ original_view = item.block.tail)
    /\ (pc = "returned" /\ original_view # NoValue) =>
        /\ events = <<"eval_body", "style", "div">>
        /\ returned.kind = "view"
        /\ Len(returned.nodes) = 2
        /\ returned.nodes[1].tag = "style"
        /\ returned.nodes[1].text = ScopedRule(unique_id, file.contents)
        /\ returned.nodes[2].tag = "div"
        /\ returned.nodes[2].id = unique_id
        /\ returned.nodes[2].children = <<item.block.tail>>

C6_Witness ==
    /\ pc = "returned"
    /\ original_view = "<p>Hello</p>"
    /\ returned.kind = "view"

(* C7: the emitted definition has the input definition's attributes,
   visibility and signature (name, parameters, return type), and the original
   body sits unmodified inside the new body. *)
C7_OnlyBodyChanges ==
    output.kind = "fn" =>
        /\ output.attrs = item.attrs
        /\ output.vis = item.vis
        /\ output.sig = item.sig
        /\ output.block.original_view = item.block

C7_Witness ==
    /\ output.kind = "fn"
    /\ Len(item.attrs) = 2
    /\ item.vis = "pub(crate)"

(* C8: when the path argument is missing or not a string literal the macro
   returns an argument error and nothing else: the item is not parsed, no
   identifier is derived, no file is read, no definition is emitted. *)
C8_ArgumentErrorFirst ==
    ~GoodAttr =>
        /\ pc \in {"parse_attr", "expanded", "build_failed"}
        /\ pc # "parse_attr" => output = CompileError("attr")
        /\ output.kind # "fn"
        /\ func = NoFunc
        /\ filename = <<>>
        /\ unique_id = <<>>
        /\ fileReads = 0

\* a missing argument on a function item
C8_Witness ==
    /\ attr = <<>>
    /\ item.kind = "fn"
    /\ pc = "build_failed"
    /\ output.kind = "compile_error"

(* C9 as stated: when the style file does not exist, the macro itself fails,
   emits no definition, and its error names the path. *)
C9_Original ==
    (GoodAttr /\ item.kind = "fn" /\ ~file.exists /\ Expanded)
        => (output.kind = "compile_error" /\ output.kind # "fn")

(* C9 amended: when the style file does not exist no compiled component
   results; the macro itself reads no file and, for a function item, returns
   the rewritten definition, and it is the compilation of that definition
   that fails, with a read error that names the given path. *)
C9_MissingFileFailsBuild ==
    (GoodAttr /\ ~file.exists) =>
        /\ ~Compiled
        /\ compiled.kind # "component"
        /\ pc # "build_failed" => fileReads = 0
        /\ (Expanded /\ item.kind = "fn") => output.kind = "fn"
        /\ (pc = "build_failed" /\ item.kind = "fn") =>
               (compiled = BuildError("read", attr[1].value) /\ fileReads = 1)

C9_Witness ==
    /\ ~file.exists
    /\ pc = "build_failed"
    /\ compiled.kind = "error"
    /\ compiled.error = "read"
    /\ compiled.path = <<97, 47>> \o CARD \o EXT_CSS

(* C10: whatever exit the original body takes, a call of the rewritten
   component returns the composed structure: the style element followed by
   the container with the identifier that holds the original result. *)
C10_EveryExitWrapped ==
    pc = "returned" =>
        /\ returned.kind = "view"
        /\ Len(returned.nodes) = 2
        /\ returned.nodes[1].tag = "style"
        /\ returned.nodes[2].tag = "div"
        /\ returned.nodes[2].id = unique_id

====
